---------------------------- MODULE Spec2Model ----------------------------
(***************************************************************************)
(* pvfilt: a worker thread runs a command once a second, the Analyzer      *)
(* extracts a "<value>/<max>" progress sample from its standard output     *)
(* into a bounded deque, and the main loop redraws the terminal for every  *)
(* Update or Resize event it receives over one mpsc channel.               *)
(*                                                                         *)
(* Threads: the worker (runner::watch_cmd with the callback of             *)
(* start_worker), the terminal input reader (start_event_loop), the resize *)
(* watcher (watch_resize) and the main loop (main, AppState).              *)
(* Shared state: Mutex<Analyzer>, Mutex<Option<CmdResult>>, the channel.   *)
(***************************************************************************)
EXTENDS Integers, Sequences, FiniteSets, TLC

VARIABLES
    samples,      \* Analyzer::samples, oldest first (VecDeque<Sample>)
    last_output,  \* the value behind WorkerState::last_output
    lockA,        \* who holds the Mutex around the Analyzer
    lockL,        \* who holds the Mutex around last_output
    queue,        \* the messages in flight in the mpsc channel, oldest first
    wpc,          \* where the worker thread is
    output,       \* the callback's argument: the CmdResult of the current run
    runs,         \* iterations of watch_cmd started so far
    now,          \* the monotonic clock, in seconds
    mpc,          \* where the main thread is
    cur,          \* the message the main loop received last
    sent,         \* per producer, how many messages it has sent
    nsent,        \* messages sent into the channel so far, all producers
    recvd,        \* per producer, how many of its messages the loop received
    nrecv,        \* messages the main loop has received so far
    updates,      \* Update events the worker has sent so far
    inserted,     \* every sample ever pushed to the store, in insertion order
    run_result,   \* the CmdResult of the latest run, as watch_cmd built it
    child,        \* what the latest run of the command did: its exit and streams
    show_help,    \* AppState::show_help, the flag draw.rs reads; main.rs has none
    frame,        \* the terminal buffer as the latest draw filled it
    frames,       \* frames written to the terminal so far
    alive,        \* the children spawned and not yet waited for, by run number
    analyzed,     \* the latest run whose callback is past lines 124-126
    slotted       \* the run whose result the last_output slot holds, 0 if none

vars == << samples, last_output, lockA, lockL, queue, wpc, output, runs, now,
           mpc, cur, sent, nsent, recvd, nrecv, updates, inserted,
           run_result, child, show_help, frame, frames, alive,
           analyzed, slotted >>

----------------------------------------------------------------------------
(* Bounds of the model. *)

\* Runs of the command, terminal events and SIGWINCH signals, all together,
\* in a behaviour of specification Spec.
MaxEvents == 3
\* Specification SpecLong watches a scripted progress command from its run
\* WarmRuns + 1 to its run LongRuns.
WarmRuns == 1332
LongRuns == 1340
\* In SpecLong a new run starts only while fewer Update events than this wait
\* in the channel.
MaxQueue == 2
\* The longest store of which specification SpecStatus draws the status, and
\* the longest of which SpecRate draws the rate series.
MaxStatusLen == 3
MaxRateLen == 4
\* Runs of the command in a behaviour of specification SpecExtract.
MaxTextRuns == 2

\* Runs of the command, and terminal events and signals, in a behaviour of
\* specification SpecFair.
MaxFairRuns == 2
MaxFairInputs == 1

(* The capacity of the Sample Store. *)
MaxSamples == 1000

----------------------------------------------------------------------------
(* Text. A string is a sequence of one-character strings. *)

Digits == << "0", "1", "2", "3", "4", "5", "6", "7", "8", "9" >>

IsDigit(c) == \E d \in 1..10 : Digits[d] = c

DigitVal(c) == (CHOOSE d \in 1..10 : Digits[d] = c) - 1

\* str::parse::<f64> on a string of decimal digits.
RECURSIVE ParseDigits(_)
ParseDigits(s) ==
    IF s = << >> THEN 0
    ELSE 10 * ParseDigits(SubSeq(s, 1, Len(s) - 1)) + DigitVal(s[Len(s)])

\* The decimal text of a natural number (what a command printing a counter
\* writes).
RECURSIVE ToDigits(_)
ToDigits(n) ==
    IF n < 10 THEN << Digits[n + 1] >>
    ELSE Append(ToDigits(n \div 10), Digits[(n % 10) + 1])

\* The last index of the run of digits that starts at i (i - 1 when s[i] is
\* no digit): [0-9]+ is greedy.
RECURSIVE DigitRunEnd(_, _)
DigitRunEnd(s, i) ==
    IF i <= Len(s) /\ IsDigit(s[i]) THEN DigitRunEnd(s, i + 1) ELSE i - 1

\* Whether "([0-9]+)/([0-9]+)" matches starting at index i.
MatchesAt(s, i) ==
    LET e == DigitRunEnd(s, i) IN
        /\ e >= i
        /\ e + 2 <= Len(s)
        /\ s[e + 1] = "/"
        /\ IsDigit(s[e + 2])

\* RE.captures(text): the leftmost match's two groups, or None.
NoMatch == [found |-> FALSE]

\* Mutant of Captures: the groups of the last match in the text.
CapturesLast(s) ==
    IF \E i \in 1..Len(s) : MatchesAt(s, i)
    THEN LET i  == CHOOSE k \in 1..Len(s) :
                       /\ MatchesAt(s, k)
                       /\ (k = 1 \/ ~IsDigit(s[k - 1]))
                       /\ \A j \in (k + 1)..Len(s) :
                              MatchesAt(s, j) => j <= DigitRunEnd(s, k)
             e1 == DigitRunEnd(s, i)
             e2 == DigitRunEnd(s, e1 + 2)
         IN [found |-> TRUE, g1 |-> SubSeq(s, i, e1), g2 |-> SubSeq(s, e1 + 2, e2)]
    ELSE NoMatch

Captures(s) ==
    IF \E i \in 1..Len(s) : MatchesAt(s, i)
    THEN LET i  == CHOOSE k \in 1..Len(s) :
                       MatchesAt(s, k) /\ \A j \in 1..(k - 1) : ~MatchesAt(s, j)
             e1 == DigitRunEnd(s, i)
             e2 == DigitRunEnd(s, e1 + 2)
         IN [found |-> TRUE, g1 |-> SubSeq(s, i, e1), g2 |-> SubSeq(s, e1 + 2, e2)]
    ELSE NoMatch

----------------------------------------------------------------------------
(* runner::CmdResult *)

CmdOutput(st, so, se) == [ok |-> TRUE, status |-> st, stdout |-> so, stderr |-> se]

CmdError(e) == [ok |-> FALSE, error |-> e]

\* Option::None of last_output, and of the locals before they are set.
None == [none |-> TRUE]

----------------------------------------------------------------------------
(* One run of the command, seen from outside: it cannot be spawned, or it    *)
(* exits with a status after writing bytes to its two streams. A byte is a   *)
(* character, or InvalidByte, which is no valid UTF-8.                       *)

Exited(st, out, err) == [spawned |-> TRUE, status |-> st, out |-> out, err |-> err]

SpawnFailed(e) == [spawned |-> FALSE, error |-> e]

InvalidByte == "\\xFF"

ReplacementChar == "\\uFFFD"

\* String::from_utf8_lossy(bytes).into_owned()
from_utf8_lossy(bytes) ==
    [i \in 1..Len(bytes) |-> IF bytes[i] = InvalidByte THEN ReplacementChar ELSE bytes[i]]

\* What wait_with_output collects of a stream: all of it when the stream is a
\* pipe, nothing when the child has inherited the stream of pvfilt.
Collected(piped, bytes) == IF piped THEN bytes ELSE << >>

\* watch_cmd, lines 17-20: the command is spawned with .stdout(Stdio::piped())
\* and nothing else, so its standard input and standard error are inherited.
StdoutPiped == TRUE

StderrPiped == FALSE

\* watch_cmd, lines 22-28: the CmdResult passed to the callback.
WatchResult(run) ==
    IF run.spawned
    THEN CmdOutput(run.status,
                   from_utf8_lossy(Collected(StdoutPiped, run.out)),
                   from_utf8_lossy(Collected(StderrPiped, run.err)))
    ELSE CmdError(run.error)

\* What one run of an arbitrary command may do.
Runs ==
    { Exited(0, << "1", "/", "2" >>, << >>),
      Exited(0, << "2", "/", "2" >>, << "w" >>),
      Exited(1, << "n", InvalidByte >>, << "e" >>),
      SpawnFailed("ENOENT") }

\* The k-th run of a command that reports its progress as "k/LongRuns", now
\* and then prints no progress, and now and then cannot be spawned: of eight
\* runs one cannot be spawned and one prints no progress.
ScriptedRun(k) ==
    IF k % 8 = 3 THEN SpawnFailed("EAGAIN")
    ELSE IF k % 8 = 6 THEN Exited(0, << "b", "u", "s", "y" >>, << >>)
    ELSE Exited(0, ToDigits(k) \o << "/" >> \o ToDigits(LongRuns), << >>)

ScriptedResult(k) == WatchResult(ScriptedRun(k))

----------------------------------------------------------------------------
(* analysis::Sample and Analyzer::process_output, in its two steps. *)

Sample(t, v, m) == [instant |-> t, value |-> v, max |-> m]

\* Mutant of PushMatch: an output without a match is a sample of 0 of 0.
PushMatchOrZero(store, outp, t) ==
    CHOOSE st \in
        {IF mat.found
         THEN Append(store, Sample(t, ParseDigits(mat.g1), ParseDigits(mat.g2)))
         ELSE Append(store, Sample(t, 0, 0)) : mat \in {Captures(outp.stdout)}} : TRUE

\* Lines 34-46: push a sample if the pattern matches.
\* (mat \in {..} stands for mat == .., worked out once.)
PushMatch(store, outp, t) ==
    CHOOSE st \in
        {IF mat.found
         THEN Append(store, Sample(t, ParseDigits(mat.g1), ParseDigits(mat.g2)))
         ELSE store : mat \in {Captures(outp.stdout)}} : TRUE

\* Mutants of PopExcess: the capacity check off by one; the newest sample
\* dropped instead of the oldest (pop_back for pop_front).
PopExcessLate(store) ==
    IF Len(store) > MaxSamples + 1 THEN Tail(store) ELSE store

PopExcessNewest(store) ==
    IF Len(store) > MaxSamples THEN SubSeq(store, 1, Len(store) - 1) ELSE store

\* Lines 48-50: drop the oldest sample when over capacity.
PopExcess(store) ==
    IF Len(store) > MaxSamples THEN Tail(store) ELSE store

\* The whole call.
process_output(store, outp, t) == PopExcess(PushMatch(store, outp, t))

----------------------------------------------------------------------------
(* f64, as far as draw needs it: a fraction n/d with d > 0, a zero of either *)
(* sign, an infinity of either sign, or NaN. Sample values and times are     *)
(* whole numbers; quotients are exact.                                       *)

Max(a, b) == IF a > b THEN a ELSE b

Abs(a) == IF a < 0 THEN -a ELSE a

RECURSIVE Gcd(_, _)
Gcd(a, b) == IF b = 0 THEN a ELSE Gcd(b, a % b)

NaN == [k |-> "nan"]

Inf(neg) == [k |-> "inf", neg |-> neg]

Zero(neg) == [k |-> "fin", n |-> 0, d |-> 1, neg |-> neg]

\* n/d for n # 0 and d # 0, in lowest terms.
Frac(n, d) ==
    LET g == Gcd(Abs(n), Abs(d))
        sgn == IF (n < 0) = (d < 0) THEN 1 ELSE -1
    IN [k |-> "fin", n |-> sgn * (Abs(n) \div g), d |-> Abs(d) \div g,
        neg |-> sgn < 0]

\* `i as f64`, and the difference of two such values: x - x is +0.0.
FromInt(i) == IF i = 0 THEN Zero(FALSE) ELSE Frac(i, 1)

IsZero(x) == x.k = "fin" /\ x.n = 0

\* a / b, IEEE 754: 0/0 and inf/inf are NaN, x/0 is an infinity, and the sign
\* of a zero or an infinity is the product of the operands' signs.
\* (a \in {x} stands for a == x, with x worked out once.)
FDiv(x, y) ==
    CHOOSE q \in
        {IF a.k = "nan" \/ b.k = "nan" THEN NaN
         ELSE IF a.k = "inf"
              THEN (IF b.k = "inf" THEN NaN ELSE Inf(a.neg # b.neg))
         ELSE IF b.k = "inf" THEN Zero(a.neg # b.neg)
         ELSE IF IsZero(b)
              THEN (IF IsZero(a) THEN NaN ELSE Inf(a.neg # b.neg))
         ELSE IF IsZero(a) THEN Zero(a.neg # b.neg)
         ELSE Frac(a.n * b.d, a.d * b.n) : a \in {x}, b \in {y}} : TRUE

\* x >= 0.0: false of NaN, true of both zeroes.
GeZero(x) ==
    CASE x.k = "nan" -> FALSE
      [] x.k = "inf" -> ~x.neg
      [] OTHER -> x.n >= 0

\* x <= 1.0
LeOne(x) ==
    CASE x.k = "nan" -> FALSE
      [] x.k = "inf" -> x.neg
      [] OTHER -> x.n <= x.d

\* Duration::from_secs(x as u64) for x >= 0.0: the cast truncates and
\* saturates, +inf giving u64::MAX.
SecsOf(x) ==
    IF x.k = "inf" THEN [secs |-> 0, saturated |-> TRUE]
    ELSE [secs |-> x.n \div x.d, saturated |-> FALSE]

----------------------------------------------------------------------------
(* The channel: mpsc::Sender::send and Receiver::iter. *)

Producers == {"tty", "resize", "worker"}

\* A message: Ok(AppEvent) or Err(io::Error). src, seq and arr identify it:
\* its producer, its number among that producer's messages and its number
\* among all messages in arrival order.
Message(type, key, src) ==
    [type |-> type, key |-> key, src |-> src, seq |-> sent[src] + 1, arr |-> nsent + 1]

\* Mutant of Enqueue: the newest message goes to the front.
EnqueueFront(q, m) == << m >> \o q

Enqueue(q, m) == Append(q, m)

Send(type, key, src) ==
    /\ queue' = Enqueue(queue, Message(type, key, src))
    /\ sent' = [sent EXCEPT ![src] = @ + 1]
    /\ nsent' = nsent + 1

Dequeue(q) == Head(q)

Rest(q) == Tail(q)

----------------------------------------------------------------------------
(* AppState::draw: what the closure given to terminal.draw renders. *)

\* The buffer terminal.draw hands to the closure.
EmptyFrame == [chart |-> << >>, status |-> None, out |-> None, help |-> FALSE]

\* Lines 215-226: the width of the time axis in seconds, at least one ...
TimeScale(store) ==
    IF store = << >> THEN 1
    ELSE Max(store[Len(store)].instant - store[1].instant, 1)

\* ... and the instant at its left end.
TimeOrigin(store, t) ==
    IF store = << >> THEN t ELSE store[Len(store)].instant - TimeScale(store)

\* Lines 240-250: the points of the chart, newest first: the scan over the
\* reversed samples ends at the first one older than the origin.
Data(store, t) ==
    LET origin == TimeOrigin(store, t)
        scale  == TimeScale(store)
        older  == {i \in 1..Len(store) : store[i].instant < origin}
        cut    == IF older = {} THEN 0
                  ELSE CHOOSE i \in older : \A j \in older : j <= i
    IN [j \in 1..(Len(store) - cut) |->
           << store[Len(store) + 1 - j].instant - origin - scale,
              store[Len(store) + 1 - j].value >>]

\* Lines 292, 301 and 316: the value the status shows as current, and from
\* which the ETA and the gauge are computed, is back.1: the value of
\* data.last(), the oldest point of the chart.
Shown(data) == data[Len(data)][2]

\* Lines 293-297 and 305-309: the duration shown, or "(unknown)".
EtaText(eta) ==
    IF GeZero(eta) THEN [unknown |-> FALSE, dur |-> SecsOf(eta)]
    ELSE [unknown |-> TRUE]

\* Lines 289-291: speed, from the two ends of the chart.
Speed(data) ==
    LET front == data[1]
        back  == data[Len(data)]
    IN FDiv(FromInt(back[2] - front[2]), FromInt(back[1] - front[1]))

\* Mutant of Status: the estimate is attempted from the first sample on.
StatusFromOne(store, data, x) ==
    IF Len(store) >= 1
    THEN LET max == store[Len(store)].max
             eta == FDiv(FromInt(max - x), Speed(data))
         IN [waiting |-> FALSE, value |-> x, max |-> max,
             eta |-> EtaText(eta), ratio |-> FDiv(FromInt(x), FromInt(max))]
    ELSE [waiting |-> TRUE]

\* Lines 288-328: the status paragraph and the gauge.
Status(store, data, x) ==
    IF Len(store) >= 2
    THEN LET max == store[Len(store)].max
             eta == FDiv(FromInt(max - x), Speed(data))
         IN [waiting |-> FALSE, value |-> x, max |-> max,
             eta |-> EtaText(eta), ratio |-> FDiv(FromInt(x), FromInt(max))]
    ELSE [waiting |-> TRUE]

\* Lines 315-316: Gauge::ratio panics unless 0.0 <= ratio <= 1.0.
GaugeAccepts(r) == LeOne(r) /\ GeZero(r)

\* Lines 371-431: the panes of the last result. A pane that is empty gives
\* its room to the other one.
OutputPanes(last) ==
    IF last = None THEN None
    ELSE IF last.ok
    THEN [failed |-> FALSE, status |-> last.status,
          panes |-> IF last.stderr = << >>
                    THEN << [title |-> "stdout", text |-> last.stdout] >>
                    ELSE IF last.stdout = << >>
                    THEN << [title |-> "stderr", text |-> last.stderr] >>
                    ELSE << [title |-> "stdout", text |-> last.stdout],
                            [title |-> "stderr", text |-> last.stderr] >>]
    ELSE [failed |-> TRUE, error |-> last.error]

\* What lines 213-328 render into the buffer from the store.
\* (data \in {..} stands for data == .., worked out once.)
ChartsFrame(store, t) ==
    CHOOSE fr \in {[EmptyFrame EXCEPT !.chart = data,
                                      !.status = Status(store, data, Shown(data))] :
                       data \in {Data(store, t)}} : TRUE

\* The buffer after the whole closure.
DrawnFrame(store, last, t) ==
    [ChartsFrame(store, t) EXCEPT !.out = OutputPanes(last)]

----------------------------------------------------------------------------
(* src/draw.rs: the other AppState::draw of the repository. It differs from  *)
(* the draw of main.rs in the chart, which plots the rate of change, in the  *)
(* value the status shows, and in the help window.                           *)

\* -x
FNeg(x) ==
    CASE x.k = "nan" -> x
      [] x.k = "inf" -> Inf(~x.neg)
      [] OTHER -> [x EXCEPT !.n = -x.n, !.neg = ~x.neg]

\* Mutant of SkipFlat: a pair of equal values is reported like any other.
SkipFlatNever(v, last_v) == FALSE

\* draw.rs line 299: a point whose value equals the value of the last point
\* kept is passed over, and the last point kept stays.
SkipFlat(v, last_v) == v = last_v

\* analyze_rate, draw.rs lines 297-311: the scan and the filter_map. st is the
\* state of the scan, None or the last point kept.
RECURSIVE RateScan(_, _, _)
RateScan(data, i, st) ==
    IF i > Len(data) THEN << >>
    ELSE LET t == data[i][1]
             v == data[i][2]
         IN IF st = None THEN RateScan(data, i + 1, << t, v >>)
            ELSE IF SkipFlat(v, st[2]) THEN RateScan(data, i + 1, st)
            ELSE << << st[1], FDiv(FromInt(v - st[2]), FromInt(t - st[1])) >> >>
                 \o RateScan(data, i + 1, << t, v >>)

\* Mutant of Skip: nothing is discarded.
SkipNone(n, seq) == seq

\* Iterator::skip(n)
Skip(n, seq) == SubSeq(seq, n + 1, Len(seq))

\* analyze_rate, draw.rs lines 296-313; the 1 is the argument of skip.
analyze_rate(data) == Skip(1, RateScan(data, 1, None))

\* draw.rs lines 83-85: analyze_rate runs on the points mirrored in time, and
\* its result is mirrored back in time and in sign.
DataRate(data) ==
    LET mirrored == [i \in 1..Len(data) |-> << -data[i][1], data[i][2] >>]
        rate     == analyze_rate(mirrored)
    IN [i \in 1..Len(rate) |-> << -rate[i][1], FNeg(rate[i][2]) >>]

\* draw.rs lines 139-166: the value the status shows as current, and from
\* which the ETA and the gauge are computed, is front.1: the value of
\* data.first(), the newest point.
ShownFront(data) == data[1][2]

\* What draw.rs lines 56-178 render into the buffer from the store.
ChartsFrameRs(store, t) ==
    LET data == Data(store, t) IN
        [EmptyFrame EXCEPT !.chart = DataRate(data),
                           !.status = Status(store, data, ShownFront(data))]

----------------------------------------------------------------------------
(* The state after main has started its threads (main, lines 43-55). *)

Init ==
    /\ samples = << >>
    /\ last_output = None
    /\ lockA = "free"
    /\ lockL = "free"
    /\ queue = << >>
    /\ wpc = "spawn"
    /\ output = None
    /\ runs = 0
    /\ now = 0
    /\ mpc = "draw"
    /\ cur = None
    /\ sent = [p \in Producers |-> 0]
    /\ nsent = 0
    /\ recvd = [p \in Producers |-> 0]
    /\ nrecv = 0
    /\ updates = 0
    /\ inserted = << >>
    /\ run_result = None
    /\ child = None
    /\ show_help = FALSE
    /\ alive = {}
    /\ analyzed = 0
    /\ slotted = 0
    /\ frame = EmptyFrame
    /\ frames = 0

\* The callback of start_worker, lines 124-128, as far as the store goes:
\* process_output is called with an Ok result only.
StoreAfterRun(store, res, t) ==
    IF res.ok THEN process_output(store, res, t) ELSE store

\* The store after runs lo..hi of the scripted command, run k at second k - 1.
RECURSIVE StoreAfterRuns(_, _, _)
StoreAfterRuns(store, lo, hi) ==
    IF lo > hi THEN store
    ELSE IF lo = hi THEN StoreAfterRun(store, ScriptedResult(lo), lo - 1)
    ELSE LET mid  == (lo + hi) \div 2
             half == StoreAfterRuns(store, lo, mid)
         IN  \* the test has the first half evaluated before the second
             IF Len(half) >= 0 THEN StoreAfterRuns(half, mid + 1, hi) ELSE half

\* Every sample runs lo..hi of the scripted command insert, in order.
RECURSIVE InsertedByRuns(_, _)
InsertedByRuns(lo, hi) ==
    IF lo > hi THEN << >>
    ELSE IF lo = hi
         THEN (IF ScriptedResult(lo).ok
               THEN PushMatch(<< >>, ScriptedResult(lo), lo - 1)
               ELSE << >>)
    ELSE LET mid == (lo + hi) \div 2 IN
             InsertedByRuns(lo, mid) \o InsertedByRuns(mid + 1, hi)

\* The state WarmRuns iterations of watch_cmd after Init, the command being
\* the scripted one, nobody at the keyboard and the main loop having redrawn
\* for every Update: what Init reaches by NextLong when the worker and the
\* main loop take turns.
InitLong ==
    /\ samples = StoreAfterRuns(<< >>, 1, WarmRuns)
    /\ last_output = ScriptedResult(WarmRuns)
    /\ lockA = "free"
    /\ lockL = "free"
    /\ queue = << >>
    /\ wpc = "spawn"
    /\ output = None
    /\ runs = WarmRuns
    /\ now = WarmRuns
    /\ mpc = "recv"
    /\ cur = [type |-> "Update", key |-> "", src |-> "worker",
              seq |-> WarmRuns, arr |-> WarmRuns]
    /\ sent = [p \in Producers |-> IF p = "worker" THEN WarmRuns ELSE 0]
    /\ nsent = WarmRuns
    /\ recvd = [p \in Producers |-> IF p = "worker" THEN WarmRuns ELSE 0]
    /\ nrecv = WarmRuns
    /\ updates = WarmRuns
    /\ inserted = InsertedByRuns(1, WarmRuns)
    /\ run_result = ScriptedResult(WarmRuns)
    /\ child = ScriptedRun(WarmRuns)
    /\ show_help = FALSE
    /\ alive = {}
    /\ analyzed = WarmRuns
    /\ slotted = WarmRuns
    /\ frame = DrawnFrame(samples, last_output, WarmRuns - 1)
    /\ frames = WarmRuns + 1

\* An Update event as the worker sends it in its k-th iteration, no other
\* producer having sent anything.
UpdateMsg(k) ==
    [type |-> "Update", key |-> "", src |-> "worker", seq |-> k, arr |-> k]

\* The stores of n samples with values in vs, maxima in ms and gaps of gs
\* seconds between a sample and the next, the first sample taken at second 0.
RECURSIVE StoresOfLen(_, _, _, _)
StoresOfLen(n, vs, ms, gs) ==
    IF n = 0 THEN {<< >>}
    ELSE IF n = 1 THEN {<< Sample(0, v, m) >> : v \in vs, m \in ms}
    ELSE {Append(st[1], Sample(st[1][n - 1].instant + st[2], st[3], st[4])) :
              st \in StoresOfLen(n - 1, vs, ms, gs) \X gs \X vs \X ms}

StoresUpTo(n, vs, ms, gs) ==
    UNION {StoresOfLen(k, vs, ms, gs) : k \in 0..n}

\* The run that printed the newest sample of the store (a run without
\* progress if there is none).
LastRunOf(store) ==
    IF store = << >> THEN Exited(0, << "b", "u", "s", "y" >>, << >>)
    ELSE Exited(0, ToDigits(store[Len(store)].value) \o << "/" >>
                       \o ToDigits(store[Len(store)].max), << >>)

\* Iterations of watch_cmd behind a store: one per second, the run of second
\* t printing the sample of instant t, or no progress.
RunsBehind(store) == IF store = << >> THEN 1 ELSE store[Len(store)].instant + 1

\* The state in which the worker has filled the store while the main loop
\* was held up writing its first frame to the terminal: the loop has now
\* received the first Update and is about to redraw; the Updates of the
\* later runs wait in the channel.
InitBehind(store) ==
    /\ samples = store
    /\ inserted = store
    /\ child = LastRunOf(store)
    /\ run_result = WatchResult(LastRunOf(store))
    /\ last_output = WatchResult(LastRunOf(store))
    /\ lockA = "free"
    /\ lockL = "free"
    /\ wpc = "spawn"
    /\ output = None
    /\ runs = RunsBehind(store)
    /\ now = RunsBehind(store)
    /\ updates = RunsBehind(store)
    /\ sent = [p \in Producers |-> IF p = "worker" THEN RunsBehind(store) ELSE 0]
    /\ nsent = RunsBehind(store)
    /\ queue = [k \in 1..(RunsBehind(store) - 1) |-> UpdateMsg(k + 1)]
    /\ mpc = "draw"
    /\ cur = UpdateMsg(1)
    /\ recvd = [p \in Producers |-> IF p = "worker" THEN 1 ELSE 0]
    /\ nrecv = 1
    /\ show_help = FALSE
    /\ alive = {}
    /\ analyzed = runs
    /\ slotted = runs
    /\ frame = DrawnFrame(<< >>, None, 0)
    /\ frames = 1

\* The stores the status is computed from in SpecStatus ...
StatusStores == StoresUpTo(MaxStatusLen, {0, 50, 100}, {50, 100}, {1, 10})

InitStatus == \E store \in StatusStores : InitBehind(store)

\* ... and those the rate series is computed from in SpecRate.
RateStores == StoresUpTo(MaxRateLen, {0, 10, 20}, {20}, {1, 2})

InitRate == \E store \in RateStores : InitBehind(store)

\* Three runs that print "0/10", "5/10" and "10/10".
Scenario ==
    << Exited(0, << "0", "/", "1", "0" >>, << >>),
       Exited(0, << "5", "/", "1", "0" >>, << >>),
       Exited(0, << "1", "0", "/", "1", "0" >>, << >>) >>

\* What the runs of specification SpecExtract print: "12/34 done",
\* "no numbers here", "7/ 5/68 9/99", "/3 007/040/5" and nothing.
ExtractRuns ==
    { Exited(0, << "1", "2", "/", "3", "4", " ", "d", "o", "n", "e" >>, << >>),
      Exited(0, << "n", "o", " ", "n", "u", "m", "b", "e", "r", "s", " ", "h", "e", "r", "e" >>, << >>),
      Exited(0, << "7", "/", " ", "5", "/", "6", "8", " ", "9", "/", "9", "9" >>, << >>),
      Exited(0, << "/", "3", " ", "0", "0", "7", "/", "0", "4", "0", "/", "5" >>, << >>),
      Exited(0, << >>, << >>) }

\* The process lives until the main loop ends: main returns, or the main
\* thread panics, and the other threads are abandoned.
Running == mpc \notin {"quit", "failed", "panicked"}

\* What the environment has produced so far: runs of the command, terminal
\* events and signals.
Produced == runs + sent["tty"] + sent["resize"]

----------------------------------------------------------------------------
(* The worker thread: runner::watch_cmd and the callback of start_worker. *)

\* Mutant of CallbackEntry: the callback leaves the Analyzer out and goes
\* for the slot at once.
CallbackEntrySlotFirst(res) == "lock_last"

\* main.rs lines 124-126: the callback goes for the Analyzer only with an Ok
\* result; with an Err it is past these lines at once.
CallbackEntry(res) == IF res.ok THEN "lock_analyzer" ELSE "lock_last"

\* watch_cmd, lines 17-28: spawn the command, wait for it and build the
\* CmdResult; the callback is entered with it.
RunCommand(run) ==
    /\ Running
    /\ wpc = "spawn"
    /\ runs' = runs + 1
    /\ child' = run
    /\ output' = WatchResult(run)
    /\ run_result' = output'
    /\ wpc' = CallbackEntry(output')
    /\ analyzed' = IF output'.ok THEN analyzed ELSE runs'
    /\ UNCHANGED << samples, last_output, lockA, lockL, queue, now, mpc, cur,
                    sent, nsent, recvd, nrecv, updates, inserted,
                    show_help, alive, slotted, frame, frames >>

\* Mutant of AfterSpawn: the loop does not wait for the child and goes round.
AfterSpawnNoWait == "spawn"

\* Where watch_cmd is after line 20: at the wait of line 22.
AfterSpawn == "wait"

\* watch_cmd, lines 17-20, the first half of RunCommand: the command is
\* spawned, or cannot be, and then there is no child.
SpawnChild(run) ==
    /\ Running
    /\ wpc = "spawn"
    /\ runs' = runs + 1
    /\ child' = run
    /\ alive' = IF run.spawned THEN alive \cup {runs'} ELSE alive
    /\ wpc' = AfterSpawn
    /\ UNCHANGED << samples, last_output, lockA, lockL, queue, output, now, mpc,
                    cur, sent, nsent, recvd, nrecv, updates, inserted,
                    run_result, show_help, analyzed, slotted, frame, frames >>

\* watch_cmd, lines 22-28, the second half of RunCommand: wait_with_output
\* returns when the child has exited (and_then passes a spawn error on); the
\* CmdResult is built and the callback is entered with it.
WaitChild ==
    /\ Running
    /\ wpc = "wait"
    /\ alive' = alive \ {runs}
    /\ output' = WatchResult(child)
    /\ run_result' = output'
    /\ wpc' = CallbackEntry(output')
    /\ analyzed' = IF output'.ok THEN analyzed ELSE runs
    /\ UNCHANGED << samples, last_output, lockA, lockL, queue, runs, now, mpc,
                    cur, sent, nsent, recvd, nrecv, updates, inserted, child,
                    show_help, slotted, frame, frames >>

\* Mutant of WorkerLockAnalyzer: process_output is entered without the lock.
WorkerSkipLockAnalyzer ==
    /\ Running
    /\ wpc = "lock_analyzer"
    /\ wpc' = "push"
    /\ UNCHANGED << samples, last_output, lockA, lockL, queue, output, runs,
                    now, mpc, cur, sent, nsent, recvd, nrecv, updates, inserted,
                    run_result,
                    child, show_help, alive, analyzed, slotted, frame, frames >>

\* main.rs line 125: analyzer.lock()
WorkerLockAnalyzer ==
    /\ Running
    /\ wpc = "lock_analyzer"
    /\ lockA = "free"
    /\ lockA' = "worker"
    /\ wpc' = "push"
    /\ UNCHANGED << samples, last_output, lockL, queue, output, runs, now, mpc,
                    cur, sent, nsent, recvd, nrecv, updates, inserted, run_result,
                    child, show_help, alive, analyzed, slotted, frame, frames >>

\* process_output, lines 34-46
ProcessOutputPush ==
    /\ Running
    /\ wpc = "push"
    /\ samples' = PushMatch(samples, output, now)
    /\ inserted' = IF Len(samples') > Len(samples)
                   THEN Append(inserted, samples'[Len(samples')])
                   ELSE inserted
    /\ wpc' = "pop"
    /\ UNCHANGED << last_output, lockA, lockL, queue, output, runs, now, mpc,
                    cur, sent, nsent, recvd, nrecv, updates, run_result,
                    child, show_help, alive, analyzed, slotted, frame, frames >>

\* Mutant of ReleaseAfterProcess: the guard is bound to a variable of the
\* callback and lives to its end.
ReleaseAfterProcessKept == "worker"

\* The lock the worker gives up when process_output returns: the guard is a
\* temporary of the statement at main.rs line 125.
ReleaseAfterProcess == "free"

\* process_output, lines 48-50, and its return
ProcessOutputPop ==
    /\ Running
    /\ wpc = "pop"
    /\ samples' = PopExcess(samples)
    /\ lockA' = ReleaseAfterProcess
    /\ analyzed' = runs
    /\ wpc' = "lock_last"
    /\ UNCHANGED << last_output, lockL, queue, output, runs, now, mpc, cur,
                    sent, nsent, recvd, nrecv, updates, inserted, run_result,
                    child, show_help, alive, slotted, frame, frames >>

\* main.rs line 128: last_output.lock()
WorkerLockLast ==
    /\ Running
    /\ wpc = "lock_last"
    /\ lockL = "free"
    /\ lockL' = "worker"
    /\ wpc' = "set_last"
    /\ UNCHANGED << samples, last_output, lockA, queue, output, runs, now, mpc,
                    cur, sent, nsent, recvd, nrecv, updates, inserted, run_result,
                    child, show_help, alive, analyzed, slotted, frame, frames >>

\* Mutants of StoreLast: only a successful result is stored; the first result
\* is kept for good.
StoreLastOkOnly(old, res) == IF res.ok THEN res ELSE old

StoreLastFirst(old, res) == IF old = None THEN res ELSE old

\* What the slot holds after the assignment of line 128.
StoreLast(old, res) == res

\* main.rs line 128: *guard = Some(output), which moves output into the slot;
\* the guard is dropped
WorkerSetLast ==
    /\ Running
    /\ wpc = "set_last"
    /\ last_output' = StoreLast(last_output, output)
    /\ output' = None
    /\ slotted' = runs
    /\ lockL' = "free"
    /\ wpc' = "send"
    /\ UNCHANGED << samples, lockA, queue, runs, now, mpc, cur, sent, nsent,
                    recvd, nrecv, updates, inserted, run_result,
                    child, show_help, alive, analyzed, frame, frames >>

\* Mutant of WorkerSend: the Update is sent for a successful run only.
WorkerSendOkOnly ==
    /\ Running
    /\ wpc = "send"
    /\ IF last_output.ok
       THEN Send("Update", "", "worker") /\ updates' = updates + 1
       ELSE UNCHANGED << queue, sent, nsent, updates >>
    /\ wpc' = "sleep"
    /\ UNCHANGED << samples, last_output, lockA, lockL, output, runs, now, mpc,
                    cur, recvd, nrecv, inserted, run_result,
                    child, show_help, alive, analyzed, slotted, frame, frames >>

\* main.rs line 130: evt_send.send(AppEvent::Update); the callback returns
WorkerSend ==
    /\ Running
    /\ wpc = "send"
    /\ Send("Update", "", "worker")
    /\ updates' = updates + 1
    /\ wpc' = "sleep"
    /\ UNCHANGED << samples, last_output, lockA, lockL, output, runs, now, mpc,
                    cur, recvd, nrecv, inserted, run_result,
                    child, show_help, alive, analyzed, slotted, frame, frames >>

\* Mutant of AfterSleep: watch_cmd returns when a run has failed.
AfterSleepStopOnError(res) == IF res.ok THEN "spawn" ELSE "stopped"

\* Where watch_cmd goes after the sleep, res being the result it has just
\* delivered: it is a loop without an exit.
AfterSleep(res) == "spawn"

\* watch_cmd, line 30: sleep one second, then the next iteration
WorkerSleep ==
    /\ Running
    /\ wpc = "sleep"
    /\ now' = now + 1
    /\ wpc' = AfterSleep(last_output)
    /\ UNCHANGED << samples, last_output, lockA, lockL, queue, output, runs,
                    mpc, cur, sent, nsent, recvd, nrecv, updates, inserted,
                    run_result,
                    child, show_help, alive, analyzed, slotted, frame, frames >>

----------------------------------------------------------------------------
(* The producers of terminal events. *)

Keys == {"q", "ctrl_c", "esc", "h", "x"}

QuitKeys == {"q", "ctrl_c", "esc"}

\* start_event_loop, lines 90-94: a key event read from the tty
TtyKey(k) ==
    /\ Running
    /\ Produced < MaxEvents
    /\ Send("Term", k, "tty")
    /\ UNCHANGED << samples, last_output, lockA, lockL, wpc, output, runs, now,
                    mpc, cur, recvd, nrecv, updates, inserted, run_result,
                    child, show_help, alive, analyzed, slotted, frame, frames >>

\* start_event_loop, lines 90-94: reading or decoding the tty failed
TtyError ==
    /\ Running
    /\ Produced < MaxEvents
    /\ Send("Err", "", "tty")
    /\ UNCHANGED << samples, last_output, lockA, lockL, wpc, output, runs, now,
                    mpc, cur, recvd, nrecv, updates, inserted, run_result,
                    child, show_help, alive, analyzed, slotted, frame, frames >>

\* watch_resize, lines 103-106: SIGWINCH
SigWinch ==
    /\ Running
    /\ Produced < MaxEvents
    /\ Send("Resize", "", "resize")
    /\ UNCHANGED << samples, last_output, lockA, lockL, wpc, output, runs, now,
                    mpc, cur, recvd, nrecv, updates, inserted, run_result,
                    child, show_help, alive, analyzed, slotted, frame, frames >>

----------------------------------------------------------------------------
(* The main loop: main lines 59-63 and AppState::process_event. *)

\* event_recv.iter().next(): the oldest message leaves the channel.
Receive ==
    /\ mpc = "recv"
    /\ queue # << >>
    /\ cur' = Dequeue(queue)
    /\ queue' = Rest(queue)
    /\ nrecv' = nrecv + 1
    /\ recvd' = [recvd EXCEPT ![cur'.src] = @ + 1]
    /\ UNCHANGED << samples, last_output, lockA, lockL, wpc, output, runs, now,
                    sent, nsent, updates, inserted, run_result,
                    child, show_help, alive, analyzed, slotted, frame, frames >>

\* Mutant of RecvError: the failure is dropped and the loop goes on.
RecvErrorSkipped ==
    /\ Receive
    /\ cur'.type = "Err"
    /\ mpc' = "recv"

\* main line 60, `e?`: an Err message ends main with that error
RecvError ==
    /\ Receive
    /\ cur'.type = "Err"
    /\ mpc' = "failed"

\* process_event, lines 151-156: a quit key ends the loop
RecvQuit ==
    /\ Receive
    /\ cur'.type = "Term"
    /\ cur'.key \in QuitKeys
    /\ mpc' = "quit"

\* Mutant of RecvIgnored: every terminal event that is no quit key redraws.
RecvIgnoredRedraws ==
    /\ Receive
    /\ cur'.type = "Term"
    /\ cur'.key \notin QuitKeys
    /\ mpc' = "draw"

\* process_event, line 157: any other terminal event
RecvIgnored ==
    /\ Receive
    /\ cur'.type = "Term"
    /\ cur'.key \notin QuitKeys
    /\ mpc' = "recv"

\* process_event, lines 158-160: Resize or Update
RecvRedraw ==
    /\ Receive
    /\ cur'.type \in {"Resize", "Update"}
    /\ mpc' = "draw"

----------------------------------------------------------------------------
(* AppState::draw, step by step. *)

\* Lines 176-212: the layout, the chart block is rendered, then
\* self.worker.analyzer.lock()
DrawLockAnalyzer ==
    /\ mpc = "draw"
    /\ lockA = "free"
    /\ lockA' = "main"
    /\ mpc' = "charts"
    /\ UNCHANGED << samples, last_output, lockL, queue, wpc, output, runs, now,
                    cur, sent, nsent, recvd, nrecv, updates, inserted, run_result,
                    child, show_help, alive, analyzed, slotted, frame, frames >>

\* Mutant of AfterDropAnalyzer: drop(analyzer) is missing.
AfterDropAnalyzerKept == "main"

\* The lock draw holds on the Analyzer after drop(analyzer), line 330.
AfterDropAnalyzer == "free"

\* Lines 213-330: the samples are read, the chart, the status paragraph and
\* the gauge are rendered, then drop(analyzer). A ratio the gauge does not
\* accept panics the main thread, which ends the process.
DrawCharts ==
    /\ mpc = "charts"
    /\ frame' = ChartsFrame(samples, now)
    /\ lockA' = AfterDropAnalyzer
    /\ mpc' = IF frame'.status.waiting \/ GaugeAccepts(frame'.status.ratio)
              THEN "lock_last" ELSE "panicked"
    /\ UNCHANGED << samples, last_output, lockL, queue, wpc, output, runs, now,
                    cur, sent, nsent, recvd, nrecv, updates, inserted, run_result,
                    child, show_help, alive, analyzed, slotted, frames >>

\* Lines 334-369: the output panes are laid out, then
\* self.worker.last_output.lock()
DrawLockLast ==
    /\ mpc = "lock_last"
    /\ lockL = "free"
    /\ lockL' = "main"
    /\ mpc' = "output"
    /\ UNCHANGED << samples, last_output, lockA, queue, wpc, output, runs, now,
                    cur, sent, nsent, recvd, nrecv, updates, inserted, run_result,
                    child, show_help, alive, analyzed, slotted, frame, frames >>

\* Lines 371-432: the last result is rendered; the closure ends and the guard
\* is dropped. The draw of main.rs has no help window.
DrawOutput ==
    /\ mpc = "output"
    /\ frame' = [frame EXCEPT !.out = OutputPanes(last_output), !.help = FALSE]
    /\ lockL' = "free"
    /\ mpc' = "flush"
    /\ UNCHANGED << samples, last_output, lockA, queue, wpc, output, runs, now,
                    cur, sent, nsent, recvd, nrecv, updates, inserted, run_result,
                    child, show_help, alive, analyzed, slotted, frames >>

\* Lines 176 and 432: after the closure terminal.draw writes the frame to the
\* terminal; draw returns to the loop
DrawFlush ==
    /\ mpc = "flush"
    /\ frames' = frames + 1
    /\ mpc' = "recv"
    /\ UNCHANGED << samples, last_output, lockA, lockL, queue, wpc, output,
                    runs, now, cur, sent, nsent, recvd, nrecv, updates, inserted,
                    run_result, child, show_help, alive, analyzed, slotted, frame >>

----------------------------------------------------------------------------
(* The draw of src/draw.rs, where it differs. *)

\* draw.rs lines 56-180: the samples are read, the chart of the rate, the
\* status paragraph and the gauge are rendered, then drop(analyzer)
DrawChartsRs ==
    /\ mpc = "charts"
    /\ frame' = ChartsFrameRs(samples, now)
    /\ lockA' = AfterDropAnalyzer
    /\ mpc' = IF frame'.status.waiting \/ GaugeAccepts(frame'.status.ratio)
              THEN "lock_last" ELSE "panicked"
    /\ UNCHANGED << samples, last_output, lockL, queue, wpc, output, runs, now,
                    cur, sent, nsent, recvd, nrecv, updates, inserted, run_result,
                    child, show_help, alive, analyzed, slotted, frames >>

\* draw.rs lines 221-289: the last result is rendered, then the help window
\* if self.show_help; the closure ends and the guard is dropped
DrawOutputRs ==
    /\ mpc = "output"
    /\ frame' = [frame EXCEPT !.out = OutputPanes(last_output), !.help = show_help]
    /\ lockL' = "free"
    /\ mpc' = "flush"
    /\ UNCHANGED << samples, last_output, lockA, queue, wpc, output, runs, now,
                    cur, sent, nsent, recvd, nrecv, updates, inserted, run_result,
                    child, show_help, alive, analyzed, slotted, frames >>

----------------------------------------------------------------------------
(* The specifications. *)

Worker ==
    \/ WorkerLockAnalyzer
    \/ ProcessOutputPush
    \/ ProcessOutputPop
    \/ WorkerLockLast
    \/ WorkerSetLast
    \/ WorkerSend
    \/ WorkerSleep

Draw ==
    \/ DrawLockAnalyzer
    \/ DrawCharts
    \/ DrawLockLast
    \/ DrawOutput
    \/ DrawFlush

\* Any command, any terminal input, a few runs.
Next ==
    \/ (Produced < MaxEvents /\ \E run \in Runs : RunCommand(run))
    \/ Worker
    \/ (\E k \in Keys : TtyKey(k))
    \/ TtyError
    \/ SigWinch
    \/ RecvError
    \/ RecvQuit
    \/ RecvIgnored
    \/ RecvRedraw
    \/ Draw

Spec == Init /\ [][Next]_vars

\* A command that reports its progress, watched long enough to fill the
\* Sample Store, with nobody at the keyboard: from the start, and from the
\* state WarmRuns iterations later.
NextLong ==
    \/ (runs < LongRuns /\ Len(queue) < MaxQueue /\ RunCommand(ScriptedRun(runs + 1)))
    \/ Worker
    \/ RecvRedraw
    \/ Draw

SpecFromStart == Init /\ [][NextLong]_vars

SpecLong == InitLong /\ [][NextLong]_vars

\* The draw of main.rs on every small store.
SpecStatus == InitStatus /\ [][Draw]_vars

\* The draw of draw.rs on every small store.
DrawRs ==
    \/ DrawLockAnalyzer
    \/ DrawChartsRs
    \/ DrawLockLast
    \/ DrawOutputRs
    \/ DrawFlush

SpecRate == InitRate /\ [][DrawRs]_vars

\* The three runs of Scenario, with nobody at the keyboard.
NextScenario ==
    \/ (runs < Len(Scenario) /\ RunCommand(Scenario[runs + 1]))
    \/ Worker
    \/ RecvRedraw
    \/ Draw

SpecScenario == Init /\ [][NextScenario]_vars

\* A command that prints a text with or without progress, a few times, with
\* nobody at the keyboard.
NextExtract ==
    \/ (runs < MaxTextRuns /\ \E run \in ExtractRuns : RunCommand(run))
    \/ Worker
    \/ RecvRedraw
    \/ Draw

SpecExtract == Init /\ [][NextExtract]_vars

\* What a run may do under SpecFair: progress within its maximum, progress
\* beyond it, or no child at all.
FairRuns ==
    { Exited(0, << "1", "/", "2" >>, << >>),
      Exited(0, << "5", "/", "3" >>, << >>),
      SpawnFailed("ENOENT") }

FairKeys == {"q", "x"}

Inputs == sent["tty"] + sent["resize"]

Spawn == runs < MaxFairRuns /\ \E run \in FairRuns : SpawnChild(run)

Input ==
    /\ Inputs < MaxFairInputs
    /\ \/ \E k \in FairKeys : TtyKey(k)
       \/ TtyError
       \/ SigWinch

MainRecv ==
    \/ RecvError
    \/ RecvQuit
    \/ RecvIgnored
    \/ RecvRedraw

\* Spawn and wait as two steps, a few runs and inputs, and every thread
\* scheduled again and again while it can take a step.
NextFair ==
    \/ Spawn
    \/ WaitChild
    \/ Worker
    \/ Input
    \/ MainRecv
    \/ Draw

\* Every run of the command terminates (WaitChild), and a thread that can
\* take its next step without end takes it some time: the worker (Spawn,
\* Worker) and the main thread (MainRecv, Draw). Nothing more is asked of the
\* locks than that, and the terminal and the signals owe nothing.
Fairness ==
    /\ WF_vars(Spawn)
    /\ WF_vars(WaitChild)
    /\ WF_vars(Worker)
    /\ WF_vars(MainRecv)
    /\ WF_vars(Draw)

SpecFair == Init /\ [][NextFair]_vars /\ Fairness

----------------------------------------------------------------------------
(* Helpers of the properties. *)

Min(a, b) == IF a < b THEN a ELSE b

\* The newest n elements of a sequence, in order.
LastN(seq, n) == SubSeq(seq, Len(seq) - Min(Len(seq), n) + 1, Len(seq))

\* A call of process_output has pushed and not yet returned.
MidCall == wpc = "pop"

IsFailure(r) == r # None /\ ~r.ok

----------------------------------------------------------------------------
(* The Sample Store. *)

\* C1: whenever process_output has returned, the Sample Store holds at most
\* 1000 samples, whatever mix of matching and non-matching outputs was
\* processed.
C1_StoreBounded == ~MidCall => Len(samples) <= MaxSamples

\* The store is full, a sample has been evicted and the call has returned.
C1_Witness ==
    /\ wpc = "lock_last"
    /\ Len(samples) = MaxSamples
    /\ Len(inserted) > MaxSamples
    /\ runs > Len(inserted)

\* C2: eviction is FIFO: whenever process_output has returned, the store holds
\* exactly the last min(n, 1000) of the n samples inserted so far, in insertion
\* order.
C2_FifoEviction == ~MidCall => samples = LastN(inserted, MaxSamples)

\* After 1001 insertions the store holds samples 2..1001 of them.
C2_Witness ==
    /\ wpc = "lock_last"
    /\ Len(inserted) = MaxSamples + 1
    /\ samples = SubSeq(inserted, 2, MaxSamples + 1)
    /\ samples[1] # inserted[1]

\* C3: while a redraw reads the Sample Store it is the store as it was after
\* a whole number of completed process_output calls, never the 1001 entries
\* between push_back and pop_front.
C3_NoTornRead ==
    mpc = "charts" => /\ Len(samples) <= MaxSamples
                      /\ samples = LastN(inserted, MaxSamples)

\* A redraw reads the full store while the worker, with the next sample to
\* append, waits for the lock.
C3_Witness ==
    /\ mpc = "charts"
    /\ wpc = "lock_analyzer"
    /\ Len(inserted) > MaxSamples
    /\ Len(samples) = MaxSamples

----------------------------------------------------------------------------
(* The two locks. *)

WorkerBlocked ==
    \/ (wpc = "lock_analyzer" /\ lockA # "free")
    \/ (wpc = "lock_last" /\ lockL # "free")

MainBlocked ==
    \/ (mpc = "draw" /\ lockA # "free")
    \/ (mpc = "lock_last" /\ lockL # "free")

\* C4: no thread holds the store lock and the last-result lock at once, no
\* thread waits for one of them while it holds the other, and so the worker
\* and the main loop are never both blocked on the locks.
C4_NoNestedLocks ==
    /\ ~(lockA = "worker" /\ lockL = "worker")
    /\ ~(lockA = "main" /\ lockL = "main")
    /\ (wpc = "lock_last" => lockA # "worker")
    /\ (wpc = "lock_analyzer" => lockL # "worker")
    /\ (mpc = "lock_last" => lockA # "main")
    /\ (mpc = "draw" => lockL # "main")
    /\ ~(WorkerBlocked /\ MainBlocked)

\* Both locks are held at once, each by another thread: the main thread
\* renders the last result while the worker appends the sample of its second
\* run.
C4_Witness ==
    /\ lockA = "worker"
    /\ lockL = "main"
    /\ runs = 2

\* C5 as claimed: no widget is rendered while the main thread holds a lock.
C5_NoRenderUnderLock ==
    mpc \in {"charts", "output"} => (lockA # "main" /\ lockL # "main")

\* C5, amended: the main thread holds the store lock exactly while the chart,
\* the status and the gauge are rendered from the samples, and the last-result
\* lock exactly while the output panes are rendered; it holds no lock while
\* the frame is written to the terminal or while it waits for an event. The
\* worker holds the store lock exactly during process_output and the
\* last-result lock exactly for the assignment.
C5_LocksOnlyWhileReading ==
    /\ (lockA = "main") = (mpc = "charts")
    /\ (lockL = "main") = (mpc = "output")
    /\ (mpc \in {"flush", "recv", "quit", "failed"} =>
            (lockA # "main" /\ lockL # "main"))
    /\ (lockA = "worker") = (wpc \in {"push", "pop"})
    /\ (lockL = "worker") = (wpc = "set_last")

\* The frame is being written to the terminal while the worker appends.
C5_Witness ==
    /\ mpc = "flush"
    /\ lockA = "worker"
    /\ wpc = "push"
    /\ cur # None

----------------------------------------------------------------------------
(* The worker's loop. *)

WorkerPcs ==
    {"spawn", "lock_analyzer", "push", "pop", "lock_last", "set_last", "send",
     "sleep"}

\* The iteration of watch_cmd the worker is in belongs to a failed run.
InFailedRun ==
    \/ IsFailure(output)
    \/ (wpc \in {"send", "sleep"} /\ IsFailure(last_output))

\* C6: a failed run is passed to the callback like any other, and after it
\* watch_cmd goes on to the next iteration: the worker never stops, and from
\* the sleep that follows a failed run its next step is the next spawn.
C6_FailedRunContinues ==
    /\ wpc \in WorkerPcs
    /\ (IsFailure(output) => wpc \in {"lock_last", "set_last"})
    /\ (wpc = "spawn" => updates = runs)

\* The run after a failed one has been spawned and is in its callback.
C6_Witness ==
    /\ runs = 2
    /\ IsFailure(last_output)
    /\ wpc = "lock_analyzer"
    /\ updates = 1

\* C7: in the iteration of a failed run the Sample Store does not change, the
\* assignment puts that failure in the last-result slot, the callback ends by
\* sending one Update, and the worker goes on.
C7_FailureShown ==
    [][InFailedRun =>
          /\ samples' = samples
          /\ (wpc = "set_last" /\ wpc' # wpc => last_output' = output)
          /\ (wpc = "send" /\ wpc' # wpc =>
                  /\ updates' = updates + 1
                  /\ Len(queue') = Len(queue) + 1
                  /\ queue'[Len(queue')].type = "Update")
          /\ wpc' \in WorkerPcs]_vars

\* A run failed after one that had appended a sample: the sample is still
\* there, the slot holds the failure and its Update is out.
C7_Witness ==
    /\ runs = 2
    /\ wpc = "sleep"
    /\ IsFailure(last_output)
    /\ Len(samples) = 1
    /\ updates = 2

\* The callback of the latest run has returned.
CallbackDone == wpc \in {"sleep", "spawn"} /\ runs > 0

\* C8: the slot is empty until the callback of the first run assigns it; once
\* the callback of run k has assigned it, it holds the result of run k, whole;
\* and it changes only by that assignment, so it holds the result of run k
\* until the callback of run k + 1 replaces it.
C8_OneLastResult ==
    /\ [](runs = 0 => last_output = None)
    /\ [](wpc = "send" \/ CallbackDone => last_output = run_result)
    /\ [][last_output' # last_output =>
              /\ wpc = "set_last"
              /\ wpc' = "send"
              /\ last_output' = run_result
              /\ run_result' = run_result]_vars

\* The second run printed no progress and exited with status 1 after a first
\* run that had appended a sample: the slot holds the second result.
C8_Witness ==
    /\ runs = 2
    /\ wpc = "sleep"
    /\ Len(samples) = 1
    /\ last_output = CmdOutput(1, << "n", ReplacementChar >>, << >>)

\* The run that inserted a sample: run k reads the clock at second k - 1.
RunOfSample(smp) == smp.instant + 1

\* C9: the worker sends one Update per run, failed or not, at the end of the
\* callback: when the callback of run k has returned, k Updates have been sent,
\* and before that k - 1; and the Update of the run that appended a sample is
\* sent after the append, so that every sample in the store has its Update
\* out, but for the one the callback in progress has just appended.
C9_UpdatePerRun ==
    /\ updates = sent["worker"]
    /\ updates = (IF wpc \in {"sleep", "spawn"} THEN runs ELSE runs - 1)
    /\ \A i \in 1..Len(inserted) :
           \/ RunOfSample(inserted[i]) <= updates
           \/ /\ RunOfSample(inserted[i]) = runs
              /\ wpc \in {"pop", "lock_last", "set_last", "send"}

\* Three runs, two that appended a sample and a failed one, and three Updates.
C9_Witness ==
    /\ runs = 3
    /\ updates = 3
    /\ Len(samples) = 2
    /\ IsFailure(last_output)

----------------------------------------------------------------------------
(* The channel. *)

\* C10: the k-th message the main loop receives is the k-th that arrived at
\* the channel, and the k-th it receives of a producer is the k-th that
\* producer sent; the messages not yet received wait in arrival order, none
\* lost and none twice.
C10_ArrivalOrder ==
    /\ nrecv + Len(queue) = nsent
    /\ \A i \in 1..Len(queue) : queue[i].arr = nrecv + i
    /\ (cur # None => cur.arr = nrecv /\ cur.seq = recvd[cur.src])
    /\ \A p \in Producers : recvd[p] <= sent[p]
    /\ \A i, j \in 1..Len(queue) :
           (i < j /\ queue[i].src = queue[j].src) => queue[i].seq < queue[j].seq

\* Three messages of two producers have been received, the worker's last,
\* after it had waited behind the two of the terminal.
C10_Witness ==
    /\ nrecv = 3
    /\ recvd["tty"] = 2
    /\ cur.src = "worker"
    /\ cur.arr = 3
    /\ mpc = "charts"

----------------------------------------------------------------------------
(* The main loop. *)

\* A call of draw is in progress.
Drawing == mpc \in {"draw", "charts", "lock_last", "output", "flush"}

\* The main loop takes a message out of the channel in this step.
Received == nrecv' = nrecv + 1

\* Redraws that process_event has asked for and that have ended, the draw of
\* main line 57 not counted.
RedrawsDone == frames + (IF Drawing THEN 1 ELSE 0) - 1

\* C11: a failure of the terminal input travels through the channel as a
\* message of its own; the main loop ends with it as soon as it receives it,
\* and then receives and draws nothing more, whatever waits in the channel;
\* every message that arrived before it has been received, and each Resize
\* and Update among them has had its redraw.
C11_TtyFailureEndsLoop ==
    /\ [](\A i \in 1..Len(queue) : queue[i].type = "Err" => queue[i].src = "tty")
    /\ []((cur # None /\ cur.type = "Err") <=> mpc = "failed")
    /\ [](mpc = "failed" =>
              /\ nrecv = cur.arr
              /\ RedrawsDone = recvd["worker"] + recvd["resize"]
              /\ ~Drawing)
    /\ [][(sent["tty"]' # sent["tty"] /\ queue'[Len(queue')].type = "Err") =>
              queue' = Append(queue, queue'[Len(queue')])]_vars
    /\ [][mpc = "failed" => UNCHANGED << nrecv, cur, mpc, frame, frames, queue >>]_vars

\* The loop has ended with the failure after a Resize it redrew for, and a
\* message that arrived after the failure is left in the channel.
C11_Witness ==
    /\ mpc = "failed"
    /\ nrecv = 2
    /\ recvd["resize"] = 1
    /\ frames = 2
    /\ Len(queue) = 1

C13_HelpToggle ==
    [][/\ (Received /\ cur'.type = "Term" /\ cur'.key = "h") =>
               show_help' = ~show_help
       /\ (mpc = "output" /\ mpc' = "flush") => frame'.help = show_help]_vars

----------------------------------------------------------------------------
(* The status: the value shown, the ETA and the gauge. *)

\* The step of draw that reads a store of at least two samples and renders
\* the status from it.
StatusDrawn == mpc = "charts" /\ mpc' # "charts" /\ Len(samples) >= 2

\* C14 as claimed: with at least two samples the ETA is shown as unknown
\* whenever the first and the last sample have the same value (speed is 0),
\* and a duration that is shown is never negative and never stands for a
\* value that is not finite.
C14_EtaUnknown ==
    [][StatusDrawn =>
          /\ (samples[1].value = samples[Len(samples)].value =>
                  frame'.status.eta.unknown)
          /\ (~frame'.status.eta.unknown =>
                  /\ frame'.status.eta.dur.secs >= 0
                  /\ ~frame'.status.eta.dur.saturated)]_vars

\* C15 as claimed: the value shown as current is the value of the newest
\* sample, and where the value has grown and max is not yet passed the ETA is
\* (max - v_last) / ((v_last - v_first) / dt), in whole seconds; the oldest
\* sample 0 and the newest 50 of 100, ten seconds apart, give 10 s.
C15_EtaFormula ==
    [][StatusDrawn =>
          LET first == samples[1]
              last  == samples[Len(samples)]
              dv    == last.value - first.value
              dt    == last.instant - first.instant
          IN /\ frame'.status.value = last.value
             /\ (dv > 0 /\ last.max >= last.value) =>
                    frame'.status.eta =
                        [unknown |-> FALSE,
                         dur |-> [secs |-> ((last.max - last.value) * dt) \div dv,
                                  saturated |-> FALSE]]
             /\ (samples = << Sample(0, 0, 100), Sample(10, 50, 100) >> =>
                    frame'.status.eta.dur.secs = 10)]_vars

\* C16 as claimed: after the runs that print "0/10", "5/10" and "10/10", a
\* frame drawn from the three samples shows 10 of 10, a gauge at 10/10 = 1 and
\* an ETA that is unknown or 0 s, and the draw does not panic.
C16_EndToEnd ==
    (frame.status # None /\ Len(frame.chart) = Len(Scenario)) =>
        /\ ~frame.status.waiting
        /\ frame.status.value = 10
        /\ frame.status.max = 10
        /\ frame.status.ratio = Frac(1, 1)
        /\ \/ frame.status.eta.unknown
           \/ (frame.status.eta.dur.secs = 0 /\ ~frame.status.eta.dur.saturated)
        /\ mpc # "panicked"

----------------------------------------------------------------------------
(* The rate series of draw.rs. *)

\* The step of draw that reads the store and renders the chart from it.
ChartDrawn == mpc = "charts" /\ mpc' # "charts"

\* The samples after which the value changes.
Changes(store) ==
    {i \in 1..(Len(store) - 1) : store[i].value # store[i + 1].value}

\* The r-th of them, counted back from the newest.
ChangeBack(store, r) ==
    CHOOSE i \in Changes(store) :
        Cardinality({j \in Changes(store) : j > i}) = r - 1

\* The rate between samples i and j of the store.
RateBetween(store, i, j) ==
    Frac(store[j].value - store[i].value, store[j].instant - store[i].instant)

\* C17 as claimed: no entry of the rate series has rate 0; every entry is the
\* rate between two consecutive samples of different values, the interval in
\* which the value changed; and the series of [(0,0), (1,0), (2,10)] shows
\* the rate 10 of the change from 0 to 10.
C17_RateOfChange ==
    [][ChartDrawn =>
          /\ \A e \in 1..Len(frame'.chart) :
                 /\ ~IsZero(frame'.chart[e][2])
                 /\ \E i \in Changes(samples) :
                        frame'.chart[e][2] = RateBetween(samples, i, i + 1)
          /\ (samples = << Sample(0, 0, 20), Sample(1, 0, 20), Sample(2, 10, 20) >> =>
                  \E e \in 1..Len(frame'.chart) : frame'.chart[e][2] = Frac(10, 1))]_vars

\* C17, amended: no entry of the rate series has rate 0 and a pair of equal
\* values gives no entry. The series is made from the samples after which the
\* value changes: an entry gives the rate between two of them that follow
\* each other, at the time of the later one, so that it spans the change
\* after the earlier one and the flat stretch behind that change; the rate of
\* the newest change, from the last such sample to the newest sample, is
\* discarded. The series of [(0,0), (1,0), (2,10)] is empty; that of
\* [(0,0), (1,0), (2,10), (3,20)] is the one entry of rate 10/(2-1) = 10 for
\* the change from 0 to 10, one second before the newest sample.
C17_RateOfChangeAmended ==
    [][ChartDrawn =>
          LET m == Cardinality(Changes(samples))
              n == Len(samples)
          IN /\ Len(frame'.chart) = Max(m - 1, 0)
             /\ \A e \in 1..Len(frame'.chart) :
                    LET later   == ChangeBack(samples, e)
                        earlier == ChangeBack(samples, e + 1)
                    IN /\ frame'.chart[e][1] =
                              samples[later].instant - samples[n].instant
                       /\ frame'.chart[e][2] = RateBetween(samples, earlier, later)
                       /\ ~IsZero(frame'.chart[e][2])
             /\ (samples = << Sample(0, 0, 20), Sample(1, 0, 20), Sample(2, 10, 20) >> =>
                     frame'.chart = << >>)
             /\ (samples = << Sample(0, 0, 20), Sample(1, 0, 20), Sample(2, 10, 20),
                              Sample(3, 20, 20) >> =>
                     frame'.chart = << << -1, Frac(10, 1) >> >>)]_vars

\* The chart drawn from four samples with a flat stretch after a change: the
\* one entry is the rate 10/2 over the change from 0 to 10 and the second of
\* no progress behind it.
C17_Witness ==
    /\ mpc = "lock_last"
    /\ samples = << Sample(0, 0, 20), Sample(1, 10, 20), Sample(2, 10, 20),
                    Sample(3, 20, 20) >>
    /\ frame.chart = << << -1, Frac(5, 1) >> >>
    /\ ~frame.status.waiting

\* C18: the rate series is empty when the store holds no sample or one, and
\* when all its samples have the same value.
C18_EmptyRate ==
    [][ChartDrawn =>
          ((Len(samples) <= 1 \/
            \A i, j \in 1..Len(samples) : samples[i].value = samples[j].value)
               => frame'.chart = << >>)]_vars

\* The chart drawn from three samples of the same value is empty.
C18_Witness ==
    /\ mpc = "lock_last"
    /\ Len(samples) = 3
    /\ \A i \in 1..3 : samples[i].value = 10
    /\ ~frame.status.waiting
    /\ frame.chart = << >>

----------------------------------------------------------------------------
(* The command's streams and the extraction. *)

\* C19 as claimed: the result handed to the callback for a run that exited
\* carries the whole text of its standard output, the whole text of its
\* standard error and its exit status.
C19_CompleteOutput ==
    (output # None /\ output.ok) =>
        /\ output.stdout = from_utf8_lossy(child.out)
        /\ output.stderr = from_utf8_lossy(child.err)
        /\ output.status = child.status

\* s[i..j] "/" s[j+2..k] is digits, a slash, digits.
IsProgress(s, i, j, k) ==
    /\ i <= j
    /\ j + 2 <= k
    /\ k <= Len(s)
    /\ \A x \in i..j : IsDigit(s[x])
    /\ s[j + 1] = "/"
    /\ \A x \in (j + 2)..k : IsDigit(s[x])

ProgressAt(s, i) ==
    \E j \in i..Len(s) : \E k \in (j + 2)..Len(s) : IsProgress(s, i, j, k)

\* The first occurrence of <integer>/<integer> in s, each integer as long as
\* it goes: << i, j, k >>.
FirstProgress(s) ==
    LET i == CHOOSE a \in 1..Len(s) :
                 ProgressAt(s, a) /\ \A b \in 1..(a - 1) : ~ProgressAt(s, b)
        j == CHOOSE b \in i..Len(s) : \E k \in (b + 2)..Len(s) : IsProgress(s, i, b, k)
        k == CHOOSE c \in (j + 2)..Len(s) :
                 /\ IsProgress(s, i, j, c)
                 /\ \A d \in (c + 1)..Len(s) : ~IsProgress(s, i, j, d)
    IN << i, j, k >>

\* The number a string of decimal digits writes.
RECURSIVE Decimal(_, _, _)
Decimal(s, i, j) ==
    IF i > j THEN 0
    ELSE Decimal(s, i, j - 1) * 10 + (CHOOSE d \in 0..9 : Digits[d + 1] = s[j])

\* The step of process_output that looks for progress in the output.
Pushing == wpc = "push" /\ wpc' = "pop"

\* C20: process_output appends one sample, with the two integers of the first
\* <integer>/<integer> of the standard output as value and max, and nothing
\* when there is none, the rest of the store staying as it is: "12/34 done"
\* appends value 12 and max 34, "no numbers here" appends nothing.
C20_FirstOccurrence ==
    [][Pushing =>
          LET s == output.stdout IN
              /\ IF \E i \in 1..Len(s) : ProgressAt(s, i)
                 THEN LET m == FirstProgress(s) IN
                          samples' = Append(samples,
                                            Sample(now, Decimal(s, m[1], m[2]),
                                                   Decimal(s, m[2] + 2, m[3])))
                 ELSE samples' = samples
              /\ (s = << "1", "2", "/", "3", "4", " ", "d", "o", "n", "e" >> =>
                      samples' = Append(samples, Sample(now, 12, 34)))
              /\ (s = << "n", "o", " ", "n", "u", "m", "b", "e", "r", "s", " ", "h", "e", "r", "e" >> =>
                      samples' = samples)]_vars

\* A run printed "12/34 done" and the next "no numbers here": the store holds
\* the one sample 12 of 34.
C20_Witness ==
    /\ runs = 2
    /\ wpc = "sleep"
    /\ samples = << Sample(0, 12, 34) >>
    /\ last_output.stdout = << "n", "o", " ", "n", "u", "m", "b", "e", "r", "s", " ", "h", "e", "r", "e" >>

----------------------------------------------------------------------------
(* A run that prints no progress. *)

\* The standard output has no <integer>/<integer> in it.
NoProgress(s) == \A i \in 1..Len(s) : ~ProgressAt(s, i)

IsQuiet(r) == r # None /\ r.ok /\ NoProgress(r.stdout)

\* The iteration of watch_cmd the worker is in belongs to a run that exited
\* and printed no progress.
InQuietRun ==
    \/ IsQuiet(output)
    \/ (wpc \in {"send", "sleep"} /\ IsQuiet(last_output))

\* C21: through the iteration of a run that exited and printed no progress the
\* Sample Store stays as it is, the same samples in the same order, none
\* appended and none evicted, even when the store is full; the assignment
\* still puts the result of that run in the last-result slot, and the callback
\* still ends by sending one Update.
C21_QuietRunKeepsStore ==
    [][InQuietRun =>
          /\ samples' = samples
          /\ inserted' = inserted
          /\ (wpc = "set_last" /\ wpc' # wpc =>
                  last_output' = output /\ last_output' = run_result)
          /\ (wpc = "send" /\ wpc' # wpc =>
                  /\ updates' = updates + 1
                  /\ queue' = Append(queue, queue'[Len(queue')])
                  /\ queue'[Len(queue')].type = "Update")]_vars

\* The callback of a run that printed "busy" has returned with a full store:
\* the store holds the 1000 samples it held, the newest that of the run
\* before, the slot holds "busy" and the Update is out.
C21_Witness ==
    /\ wpc = "sleep"
    /\ IsQuiet(last_output)
    /\ last_output.stdout = << "b", "u", "s", "y" >>
    /\ Len(samples) = MaxSamples
    /\ RunOfSample(samples[MaxSamples]) = runs - 1
    /\ updates = runs

----------------------------------------------------------------------------
(* The status with too few samples. *)

\* C22: a redraw that reads a store of fewer than two samples shows "Waiting
\* for more data..." and computes no speed, no ETA and no gauge ratio, so
\* that it cannot panic there; a redraw that reads two samples or more
\* computes them. The estimate is attempted exactly when the store holds at
\* least two samples.
C22_WaitingForData ==
    [][ChartDrawn =>
          /\ frame'.status.waiting <=> Len(samples) < 2
          /\ (Len(samples) < 2 =>
                  /\ DOMAIN frame'.status = {"waiting"}
                  /\ mpc' = "lock_last")
          /\ (Len(samples) >= 2 =>
                  /\ {"value", "max", "eta", "ratio"} \subseteq DOMAIN frame'.status
                  /\ frame'.status.eta = EtaText(FDiv(FromInt(frame'.status.max -
                                                              frame'.status.value),
                                                      Speed(frame'.chart))))
          /\ Len(frame'.chart) = Len(samples)]_vars

\* The chart has been drawn with the one sample of the store, and the status
\* says it waits.
C22_Witness ==
    /\ mpc = "lock_last"
    /\ Len(samples) = 1
    /\ Len(frame.chart) = 1
    /\ frame.status = [waiting |-> TRUE]

----------------------------------------------------------------------------
(* The iterations of watch_cmd. *)

CallbackPcs == {"lock_analyzer", "push", "pop", "lock_last", "set_last", "send"}

\* The steps of one iteration, in the order of runner.rs lines 17-30 and
\* main.rs lines 123-131.
IterationOrder ==
    { << "spawn", "wait" >>,
      << "wait", "lock_analyzer" >>, << "wait", "lock_last" >>,
      << "lock_analyzer", "push" >>, << "push", "pop" >>, << "pop", "lock_last" >>,
      << "lock_last", "set_last" >>, << "set_last", "send" >>,
      << "send", "sleep" >>,
      << "sleep", "spawn" >> }

\* C23: at most one child is alive at any time, and it is the one of the
\* latest run; the worker goes through spawn, wait, callback and sleep in this
\* order and no other; while the callback of run k runs, run k has exited and
\* the callback has its result; run k + 1 is spawned only when the callback
\* of run k has returned (its Update is out, its argument is gone, the worker
\* holds no lock) and the sleep after it has passed; and as every run
\* terminates, every iteration begun comes to its end and another run is
\* started after it, for as long as the process lives.
C23_RunsInSequence ==
    /\ [](Cardinality(alive) <= 1 /\ alive \subseteq {runs})
    /\ [](alive # {} <=> (wpc = "wait" /\ child.spawned))
    /\ [](wpc \in CallbackPcs =>
              /\ alive = {}
              /\ run_result = WatchResult(child)
              /\ (wpc # "send" => output = run_result))
    /\ [][wpc' # wpc => << wpc, wpc' >> \in IterationOrder]_vars
    /\ [][runs' # runs =>
              /\ runs' = runs + 1
              /\ wpc = "spawn"
              /\ updates = runs
              /\ now = runs
              /\ alive = {}
              /\ output = None
              /\ lockA # "worker"
              /\ lockL # "worker"]_vars
    /\ (wpc # "spawn" ~> (wpc = "spawn" \/ ~Running))
    /\ \A k \in 0..(MaxFairRuns - 1) : (runs = k ~> (runs = k + 1 \/ ~Running))

\* The child of the second run is alive; the callback of the first has
\* returned and a second has passed since.
C23_Witness ==
    /\ wpc = "wait"
    /\ alive = {2}
    /\ runs = 2
    /\ updates = 1
    /\ now = 1
    /\ output = None
    /\ last_output # None

----------------------------------------------------------------------------
(* The order of the callback's effects. *)

\* The sample process_output makes of a result taken by the run of number k.
SampleOf(res, k) ==
    LET s == res.stdout
        m == FirstProgress(s)
    IN Sample(k - 1, Decimal(s, m[1], m[2]), Decimal(s, m[2] + 2, m[3]))

\* The main loop is handling an Update: it has received it and the redraw it
\* asked for has not ended. cur.seq is the number of the run that sent it.
HandlingUpdate == Drawing /\ cur # None /\ cur.type = "Update"

\* C24: in the callback of run k the Sample Store comes first, then the
\* last-result slot, then one Update and no more: the callback is past the
\* store while the slot still holds run k - 1 and no Update of run k is out;
\* the slot is assigned when the store is done with run k; the Update is
\* sent when both are done. So the slot is never ahead of the store, the
\* sample of the result in the slot, if it has one, has been appended, and
\* while the main loop handles the Update of run k the store and the slot are
\* at run k or later.
C24_StoreThenSlotThenUpdate ==
    /\ [](slotted <= analyzed /\ analyzed <= runs /\ updates <= slotted)
    /\ []((slotted > 0 /\ last_output.ok /\ ~NoProgress(last_output.stdout)) =>
              \E i \in 1..Len(inserted) : inserted[i] = SampleOf(last_output, slotted))
    /\ [](HandlingUpdate => (cur.seq <= slotted /\ cur.seq <= analyzed))
    /\ [][analyzed' # analyzed =>
              /\ analyzed' = runs'
              /\ slotted = runs' - 1
              /\ updates = runs' - 1]_vars
    /\ [][samples' # samples => (analyzed = runs - 1 /\ slotted = runs - 1)]_vars
    /\ [][slotted' # slotted =>
              /\ slotted' = runs
              /\ analyzed = runs
              /\ updates = runs - 1
              /\ last_output' = run_result]_vars
    /\ [][updates' # updates =>
              /\ updates' = updates + 1
              /\ updates' = runs
              /\ analyzed = runs
              /\ slotted = runs
              /\ queue' = Append(queue, queue'[Len(queue')])
              /\ queue'[Len(queue')].type = "Update"
              /\ queue'[Len(queue')].seq = runs]_vars

\* The main loop draws for the Update of the first run while the worker,
\* done with the store for its second run, has not yet assigned the slot.
C24_Witness ==
    /\ HandlingUpdate
    /\ cur.seq = 1
    /\ mpc = "output"
    /\ wpc = "lock_last"
    /\ analyzed = 2
    /\ slotted = 1
    /\ Len(samples) = 2

----------------------------------------------------------------------------
(* The gauge. *)

\* C26 as claimed: whenever draw has made the status from a store of two
\* samples or more, the ratio it has passed to the gauge is a number from 0
\* to 1, so that Gauge::ratio takes it and the draw goes on; a value beyond
\* max or a max of 0 makes no exception.
C26_RatioInRange ==
    (frame.status # None /\ ~frame.status.waiting) =>
        /\ frame.status.ratio.k = "fin"
        /\ 0 <= frame.status.ratio.n
        /\ frame.status.ratio.n <= frame.status.ratio.d
        /\ mpc # "panicked"

----------------------------------------------------------------------------
(* Events and redraws. *)

Redraws == {"Update", "Resize"}

\* The most messages a behaviour of SpecFair sends.
MaxArrivals == MaxFairRuns + MaxFairInputs

\* The a-th message that arrived at the channel asks for a redraw that has
\* not ended: it waits in the channel, or the main loop is drawing for it.
RedrawOwed(a) ==
    \/ /\ nrecv < a
       /\ a <= nsent
       /\ queue[a - nrecv].type \in Redraws
    \/ /\ cur # None
       /\ cur.arr = a
       /\ cur.type \in Redraws
       /\ Drawing

\* The main loop has received the a-th message and is done with it: the
\* frame of its redraw has been written to the terminal.
RedrawDone(a) == nrecv > a \/ (nrecv = a /\ mpc = "recv")

\* The main loop has received a quit key or a failure of the terminal.
LoopEnded == mpc \in {"quit", "failed"}

\* The worker is not at a step it can take.
WorkerStalled == Running /\ wpc # "spawn" /\ ~ENABLED (WaitChild \/ Worker)

\* C25 as claimed: with every thread scheduled fairly, an Update or a Resize
\* that has been sent is received and redrawn for, its frame written, unless
\* the main loop receives a quit key or a terminal failure first; the send of
\* the worker can always be taken, whatever the main loop does, and the
\* worker cannot go on only while it waits for a lock that a redraw of the
\* main thread holds.
C25_EveryEventRedrawn ==
    /\ \A a \in 1..MaxArrivals : RedrawOwed(a) ~> (RedrawDone(a) \/ LoopEnded)
    /\ [](Running /\ wpc = "send" => ENABLED WorkerSend)
    /\ [](WorkerStalled =>
              \/ (wpc = "lock_analyzer" /\ lockA = "main" /\ mpc = "charts")
              \/ (wpc = "lock_last" /\ lockL = "main" /\ mpc = "output"))

=============================================================================
